---- MODULE Spec2Model ----
(***************************************************************************)
(* A model of the arXiv OAI-PMH harvester (chasekb/arhida, C++ port).      *)
(*                                                                         *)
(* The program is single threaded.  One run is main(): connect to the      *)
(* store, harvestRecent and/or harvestBackfill, disconnect.  Each harvest  *)
(* unit is one Harvester::harvestSetSpec call, which is one                *)
(* OaiClient::listRecords call, which is a rate-limit sleep followed by a  *)
(* retry loop around OaiClient::fetchUrl and one parseXmlResponse.         *)
(*                                                                         *)
(* The state is split at the blocking points of the code (the sleeps and   *)
(* the HTTP transfer); everything the code does between two blocking       *)
(* points is one action.  Time is kept as the time elapsed since the       *)
(* start of the last physical request; every elapsed time of ElapsedCap or *)
(* more is kept as ElapsedCap, the largest delay the run compares it with. *)
(***************************************************************************)
EXTENDS Integers, Sequences, FiniteSets, TLC

(***************************************************************************)
(* Bounds of the model.                                                    *)
(***************************************************************************)
MaxRetriesCfg == 2      \* ARXIV_MAX_RETRIES ranges over -1 .. MaxRetriesCfg
MaxDelay      == 2      \* ARXIV_RATE_LIMIT_DELAY ranges over 1 .. MaxDelay
MaxJitter     == 1      \* a sleep_for may oversleep by 0 .. MaxJitter
MaxFetchTime  == 1      \* an HTTP transfer lasts 0 .. MaxFetchTime
MaxTopics     == 2      \* number of configured set_specs
MaxRecs       == 2      \* record elements of a page in the parser's inputs
MaxHeaderKids == 3      \* children of a <header> in the parser's inputs
MaxDcKids     == 2      \* children of a Dublin Core element in the parser's inputs
MaxGapDay     == 3      \* days the backfill range and the stored rows range over
MaxDates      == 8      \* missing dates of a set in the backfill loops
MaxStrLen     == 1      \* bytes of a string handed to vectorToJson
MaxVecLen     == 2      \* strings of a vector handed to vectorToJson
LimiterStep   == 500    \* granularity of the RateLimiter clock, in milliseconds
LimiterHorizon == 5     \* the RateLimiter clock runs up to LimiterHorizon seconds

(***************************************************************************)
(* Program constants.                                                      *)
(***************************************************************************)
ChunkSize        == 7   \* const size_t chunk_size = 7
ChunkDelay       == 5   \* sleep_for(seconds(5)) between chunks
HttpErrorFloor   == 400 \* response_code >= 400 throws
MsPerSecond      == 1000 \* RateLimiter::RateLimiter: delay_seconds * 1000

NoGap == 0 - 1

Max0(x) == IF x > 0 THEN x ELSE 0
Min(a, b) == IF a < b THEN a ELSE b

ElapsedCap == MaxDelay
Sat(t) == Min(t, ElapsedCap)

(***************************************************************************)
(* XML documents.  An element is [name, code, text, kids]: code is its     *)
(* code attribute, text the content xmlNodeGetContent returns for it (the  *)
(* model keeps text in leaves only).                                       *)
(***************************************************************************)
Leaf(name, text) == [name |-> name, code |-> "", text |-> text, kids |-> <<>>]
Elem(name, kids) == [name |-> name, code |-> "", text |-> "", kids |-> kids]
\* <error code="...">message</error>
ErrorElem(code)  == [name |-> "error", code |-> code, text |-> "message", kids |-> <<>>]

EmptyBody   == [kind |-> "empty",   root |-> Leaf("", "")]
GarbageBody == [kind |-> "garbage", root |-> Leaf("", "")]
XmlBody(root) == [kind |-> "xml", root |-> root]

RecordElem(id, stamp, title) ==
    Elem("record",
         << Elem("header", << Leaf("identifier", id),
                              Leaf("datestamp", stamp),
                              Leaf("setSpec", "physics") >>),
            Elem("metadata", << Elem("dc", << Leaf("title", title),
                                               Leaf("creator", "A. Author"),
                                               Leaf("description", "abstract"),
                                               Leaf("type", "text") >>) >>) >>)

Envelope(kids) ==
    XmlBody(Elem("OAI-PMH",
                 << Leaf("responseDate", "2021-01-02T00:00:00Z"),
                    Leaf("request", "http://export.arxiv.org/oai2") >> \o kids))

\* <error code="noRecordsMatch"/>: the protocol's empty-result signal
NoRecordsMatchBody == Envelope(<< ErrorElem("noRecordsMatch") >>)
\* <error code="badArgument"/>: a genuine protocol error
BadArgumentBody    == Envelope(<< ErrorElem("badArgument") >>)
\* record elements directly under the root, followed by a resumption token
FlatPageBody ==
    Envelope(<< RecordElem("oai:arXiv.org:1", "2021-01-01", "T1"),
                RecordElem("", "2021-01-01", "T0"),
                RecordElem("oai:arXiv.org:2", "2021-01-02", "T2"),
                Leaf("resumptionToken", "tok1") >>)
\* the protocol's own shape: records and token inside <ListRecords>
OaiPageBody ==
    Envelope(<< Elem("ListRecords",
                     << RecordElem("oai:arXiv.org:3", "2021-01-01", "T3"),
                        Leaf("resumptionToken", "tok2") >>) >>)

OkBodies == { EmptyBody, GarbageBody, NoRecordsMatchBody, BadArgumentBody,
              FlatPageBody, OaiPageBody }

(***************************************************************************)
(* What one physical request can end in: the CURLcode, the HTTP status and *)
(* the bytes that reached writeCallback.                                   *)
(***************************************************************************)
HttpRetryable == {429, 503}
HttpRejected  == {404}
TransportErrors ==
    { [curl |-> "ERR", status |-> 0, body |-> EmptyBody] }
HttpErrors ==
    { [curl |-> "OK", status |-> s, body |-> GarbageBody] :
          s \in HttpRetryable \cup HttpRejected }
HttpSuccesses ==
    { [curl |-> "OK", status |-> 200, body |-> b] : b \in OkBodies }
Outcomes == TransportErrors \cup HttpErrors \cup HttpSuccesses

(***************************************************************************)
(* OaiClient::parseXmlResponse.                                            *)
(***************************************************************************)
EmptyRecord ==
    [ header_identifier |-> "", header_datestamp |-> "", header_setSpecs |-> <<>>,
      metadata_creator |-> <<>>, metadata_date |-> <<>>,
      metadata_description |-> "", metadata_identifier |-> <<>>,
      metadata_subject |-> <<>>, metadata_title |-> <<>>, metadata_type |-> "" ]

\* a push_back that puts the new value first
PushFront(seq, v) == << v >> \o seq

\* std::vector::push_back
PushBack(seq, v) == Append(seq, v)

\* one child of <header>
ParseHeaderChild(rec, hc) ==
    IF hc.name = "identifier"
    THEN [rec EXCEPT !.header_identifier = hc.text]
    ELSE IF hc.name = "datestamp"
    THEN [rec EXCEPT !.header_datestamp = hc.text]
    ELSE IF hc.name = "setSpec"
    THEN [rec EXCEPT !.header_setSpecs = PushBack(@, hc.text)]
    ELSE rec

RECURSIVE ParseHeader(_, _)
ParseHeader(rec, kids) ==
    IF kids = <<>> THEN rec
    ELSE ParseHeader(ParseHeaderChild(rec, Head(kids)), Tail(kids))

\* an assignment that keeps the value an earlier element of the tag gave
AssignKeepFirst(old, content) == IF old = "" THEN content ELSE old

\* record.metadata_description = content; record.metadata_type = content
Assign(old, content) == content

\* one Dublin Core element
ParseDcChild(rec, c) ==
    IF c.name = "creator"
    THEN [rec EXCEPT !.metadata_creator = PushBack(@, c.text)]
    ELSE IF c.name = "date"
    THEN [rec EXCEPT !.metadata_date = PushBack(@, c.text)]
    ELSE IF c.name = "description"
    THEN [rec EXCEPT !.metadata_description = Assign(@, c.text)]
    ELSE IF c.name = "identifier"
    THEN [rec EXCEPT !.metadata_identifier = PushBack(@, c.text)]
    ELSE IF c.name = "subject"
    THEN [rec EXCEPT !.metadata_subject = PushBack(@, c.text)]
    ELSE IF c.name = "title"
    THEN [rec EXCEPT !.metadata_title = PushBack(@, c.text)]
    ELSE IF c.name = "type"
    THEN [rec EXCEPT !.metadata_type = Assign(@, c.text)]
    ELSE rec

RECURSIVE ParseDc(_, _)
ParseDc(rec, kids) ==
    IF kids = <<>> THEN rec
    ELSE ParseDc(ParseDcChild(rec, Head(kids)), Tail(kids))

RECURSIVE ParseMetadata(_, _)
ParseMetadata(rec, dcs) ==
    IF dcs = <<>> THEN rec
    ELSE ParseMetadata(ParseDc(rec, Head(dcs).kids), Tail(dcs))

RECURSIVE ParseRecord(_, _)
ParseRecord(rec, kids) ==
    IF kids = <<>> THEN rec
    ELSE LET child == Head(kids)
             next  == IF child.name = "header"
                      THEN ParseHeader(rec, child.kids)
                      ELSE IF child.name = "metadata"
                      THEN ParseMetadata(rec, child.kids)
                      ELSE rec
         IN  ParseRecord(next, Tail(kids))

\* if (!record.header_identifier.empty()) records.push_back(record)
KeepRecord(rec) == rec.header_identifier # ""

RECURSIVE ParseRootChildren(_, _)
ParseRootChildren(records, nodes) ==
    IF nodes = <<>> THEN records
    ELSE LET node == Head(nodes)
             rec  == ParseRecord(EmptyRecord, node.kids)
             next == IF node.name = "record" /\ KeepRecord(rec)
                     THEN PushBack(records, rec)
                     ELSE records
         IN  ParseRootChildren(next, Tail(nodes))

ParseXmlResponse(xml) ==
    IF xml.kind # "xml" THEN <<>>
    ELSE ParseRootChildren(<<>>, xml.root.kids)


(***************************************************************************)
(* Configuration and command line.                                         *)
(***************************************************************************)
RetriesCfg == -1 .. MaxRetriesCfg
DelayCfg   == 1 .. MaxDelay
Modes      == {"recent", "backfill", "both"}
TopicNames == << "physics", "math", "cs", "q-bio", "q-fin", "stat", "eess", "econ" >>
SetSpecs   == SubSeq(TopicNames, 1, Min(MaxTopics, Len(TopicNames)))

RecentFrom  == "now-48h"
RecentUntil == "now-24h"
StartDates  == {"", "2021-01-01"}
EndDates    == {""}
DefaultStart == "2007-01-01"
DefaultEnd   == "2026-01-01"

VARIABLES
    pc,                \* control position of the single thread
    mode,              \* --mode
    start_date,        \* --start-date
    end_date,          \* --end-date
    exit_code,         \* value main returns (-1 while running)
    conn_, connected_, \* Database handle
    db_opened,         \* PQconnectdb calls made in this run
    db_closed,         \* PQfinish calls made in this run
    tableExists,       \* schema, table and indexes created
    rows,              \* stored rows of the metadata table
    max_retries_,      \* OaiClient::max_retries_
    rate_limit_delay_, \* OaiClient::rate_limit_delay_ = Config rate limit delay
    url,               \* listRecords: the request URL of the current call
    retries,           \* listRecords: int retries
    xml_response,      \* listRecords: std::string xml_response
    response_buffer,   \* static std::string response_buffer
    lr_result,         \* how the last listRecords call ended
    inFlight,          \* physical requests in progress
    started,           \* a physical request has been started in this run
    elapsed,           \* time since the last request start (saturated)
    gap,               \* start-to-start interval measured at the last start
    callWaits,         \* rateLimitWait calls completed in the current call
    callReqs,          \* URLs of the requests started in the current call
    attempts,          \* outcomes of the requests finished in the current call
    calls,             \* URLs of the listRecords calls made in this run
    caller,            \* "recent" or "backfill": who runs the current unit
    i,                 \* index of the current set_spec (1-based)
    missing_dates,     \* harvestBackfill: missing dates of the current set
    j,                 \* harvestBackfill: index into missing_dates (1-based)
    chunk_waits,       \* harvestBackfill: waits between chunks taken so far
    total_records, successful_sets, failed_sets,
    main_total,        \* main: int total_records
    cancel_requested,  \* an external cancellation request has been raised
    now,               \* steady_clock::now() in milliseconds
    last_request_,     \* RateLimiter::last_request_ (0: the clock's epoch)
    delay_ms_,         \* RateLimiter::delay_ms_
    lim_op,            \* the RateLimiter member function that returned last
    lim_prev,          \* last_request_ when that function was entered
    lim_slept,         \* milliseconds that function asked sleep_for for
    json_vec,          \* JsonHelper: the vector handed to vectorToJson
    json_str,          \* JsonHelper: the text vectorToJson returned
    json_result,       \* JsonHelper: the vector jsonToVector returned
    json_op            \* JsonHelper: the call that ended last

vars == << pc, mode, start_date, end_date, exit_code, conn_, connected_,
           db_opened, db_closed, tableExists, rows,
           max_retries_, rate_limit_delay_, url, retries, xml_response,
           response_buffer, lr_result, inFlight, started, elapsed, gap, callWaits,
           callReqs, attempts, calls, caller, i, missing_dates, j, chunk_waits,
           total_records,
           successful_sets, failed_sets, main_total, cancel_requested, now,
           last_request_, delay_ms_, lim_op, lim_prev, lim_slept,
           json_vec, json_str, json_result, json_op >>

handleVars == << conn_, connected_, db_opened, db_closed >>
dbVars     == << handleVars, tableExists, rows >>
cfgVars    == << mode, start_date, end_date, max_retries_, rate_limit_delay_ >>
clientVars == << url, retries, xml_response, response_buffer, lr_result,
                 inFlight, started, gap, callWaits, callReqs, attempts, calls >>
loopVars   == << caller, i, missing_dates, j, chunk_waits, total_records, successful_sets,
                 failed_sets, main_total >>

\* state outside the run of main: the cancellation request, which no code
\* reads, a RateLimiter object, which main never constructs, and the
\* arguments and results of the JsonHelper functions, which main never calls
limiterVars == << now, last_request_, delay_ms_, lim_op, lim_prev, lim_slept >>
jsonVars    == << json_vec, json_str, json_result, json_op >>
envVars     == << cancel_requested, limiterVars, jsonVars >>

NoUrl    == [set |-> "", from |-> "", until |-> ""]
NoResult == [kind |-> "none", records |-> <<>>]

\* no JsonHelper function has been called
NoJson ==
    /\ json_vec = <<>> /\ json_str = <<>> /\ json_result = <<>>
    /\ json_op = "none"

\* no RateLimiter object exists
NoLimiter ==
    /\ now = 0 /\ last_request_ = 0 /\ delay_ms_ = 0
    /\ lim_op = "none" /\ lim_prev = 0 /\ lim_slept = 0

Init ==
    /\ pc = "main"
    /\ mode \in Modes
    /\ start_date \in StartDates
    /\ end_date \in EndDates
    /\ exit_code = -1
    /\ conn_ = "null" /\ connected_ = FALSE
    /\ db_opened = 0 /\ db_closed = 0
    /\ tableExists = FALSE
    /\ rows = {}
    /\ max_retries_ \in RetriesCfg
    /\ rate_limit_delay_ \in DelayCfg
    /\ url = NoUrl
    /\ retries = 0
    /\ xml_response = EmptyBody
    /\ response_buffer = EmptyBody
    /\ lr_result = NoResult
    /\ inFlight = 0
    /\ started = FALSE
    /\ elapsed = 0
    /\ gap = NoGap
    /\ callWaits = 0
    /\ callReqs = <<>>
    /\ attempts = <<>>
    /\ calls = <<>>
    /\ caller = ""
    /\ i = 0
    /\ missing_dates = <<>>
    /\ j = 0
    /\ chunk_waits = 0
    /\ total_records = 0 /\ successful_sets = 0 /\ failed_sets = 0
    /\ main_total = 0
    /\ cancel_requested = FALSE
    /\ NoJson
    /\ NoLimiter

(***************************************************************************)
(* OaiClient::listRecords and OaiClient::fetchUrl.                         *)
(***************************************************************************)
\* the request URL: base_url_?verb=ListRecords&metadataPrefix=oai_dc&set=..&from=..&until=..
BuildUrl(set, from, until) == [set |-> set, from |-> from, until |-> until]

\* a rateLimitWait() that returns at once
RateLimitSleepNone(delay) == 0

\* rateLimitWait(): the duration handed to sleep_for
RateLimitSleep(delay) == delay

\* Config::retry_after_: the default of ARXIV_RETRY_AFTER, in seconds
RetryAfter == 5

\* the wait of the catch block: rateLimitWait(), the same member function
\* and the same rate_limit_delay_ as before the loop; OaiClient has no
\* member for Config::getRetryAfter() and nothing hands it one
RetryWaitDuration == RateLimitSleep(rate_limit_delay_)

\* a loop that runs once more than max_retries_ allows
LoopCondInclusive(r, max) == r <= max

\* a loop that tests its condition only after the first attempt
LoopCondAfterFirst(r, max) == r = 0 \/ r < max

\* while (retries < max_retries_)
LoopCond(r, max) == r < max

\* a catch block that retries without waiting
RetryWaitNever(r, max) == FALSE

\* in the catch block: if (retries < max_retries_) rateLimitWait()
RetryWaitCond(r, max) == r < max

\* a catch block that forgets to count the failed attempt
NextRetriesStuck(r) == r

\* in the catch block: retries++
NextRetries(r) == r + 1

\* fetchUrl throws on a CURL error and on response_code >= 400
FetchThrows(o) == o.curl # "OK" \/ o.status >= HttpErrorFloor

\* the position after the loop condition has been evaluated
AfterLoopCheck(r) == IF LoopCond(r, max_retries_) THEN "lr_fetch" ELSE "lr_return"

\* a successful fetch after which the loop goes on to its next test
AfterFetchNoBreak(r) == AfterLoopCheck(r)

\* xml_response = fetchUrl(url.str()); break;
AfterFetch(r) == "lr_return"

\* if (xml_response.empty()) return {}; return parseXmlResponse(xml_response)
ListRecordsResult(xml) ==
    [ kind    |-> "returned",
      records |-> IF xml.kind = "empty" THEN <<>> ELSE ParseXmlResponse(xml) ]

\* entry of listRecords up to its first rateLimitWait
BeginCall(set, from, until) ==
    /\ url' = BuildUrl(set, from, until)
    /\ callWaits' = 0
    /\ callReqs' = <<>>
    /\ attempts' = <<>>
    /\ calls' = Append(calls, BuildUrl(set, from, until))
    /\ pc' = "lr_wait0"
    /\ UNCHANGED << retries, xml_response, response_buffer, lr_result, inFlight, started, gap >>

\* the rateLimitWait() before the loop, then the locals and the first loop test
RateLimitWait0 ==
    /\ pc = "lr_wait0"
    /\ \E jit \in 0 .. MaxJitter :
           elapsed' = Sat(elapsed + RateLimitSleep(rate_limit_delay_) + jit)
    /\ callWaits' = callWaits + 1
    /\ xml_response' = EmptyBody
    /\ retries' = 0
    /\ pc' = AfterLoopCheck(0)
    /\ UNCHANGED << url, calls, response_buffer, lr_result, inFlight, started, gap, callReqs, attempts >>
    /\ UNCHANGED << exit_code, dbVars, cfgVars, envVars, loopVars >>

\* a curl_easy_perform that returns while its transfer is still going on
TransferPending(n) == n

\* curl_easy_perform blocks until the transfer is over: one request fewer in
\* progress when it returns
TransferDone(n) == n - 1

\* a fetchUrl that leaves the buffer as the last transfer left it
BufferKept(buffer) == buffer

\* response_buffer.clear()
BufferCleared(buffer) == EmptyBody

\* writeCallback over one transfer: response_buffer.append(contents); bytes
\* that follow the bytes of another body make no document with them
WriteCallback(buffer, body) ==
    IF buffer.kind = "empty" THEN body
    ELSE IF body.kind = "empty" THEN buffer
    ELSE GarbageBody

\* fetchUrl up to curl_easy_perform: the physical request starts
FetchStart ==
    /\ pc = "lr_fetch"
    /\ response_buffer' = BufferCleared(response_buffer)
    /\ inFlight' = inFlight + 1
    /\ gap' = IF started THEN elapsed ELSE NoGap
    /\ started' = TRUE
    /\ elapsed' = 0
    /\ callReqs' = Append(callReqs, url)
    /\ pc' = "lr_fetching"
    /\ UNCHANGED << url, calls, retries, xml_response, lr_result, callWaits, attempts >>
    /\ UNCHANGED << exit_code, dbVars, cfgVars, envVars, loopVars >>

\* curl_easy_perform returns; fetchUrl returns or throws; the catch block
FetchEnd ==
    /\ pc = "lr_fetching"
    /\ \E o \in Outcomes, dur \in 0 .. MaxFetchTime :
        /\ elapsed' = Sat(elapsed + dur)
        /\ response_buffer' = WriteCallback(response_buffer, o.body)
        /\ attempts' = Append(attempts, o)
        /\ IF FetchThrows(o)
           THEN /\ retries' = NextRetries(retries)
                /\ xml_response' = xml_response
                /\ pc' = IF RetryWaitCond(NextRetries(retries), max_retries_)
                         THEN "lr_wait"
                         ELSE AfterLoopCheck(NextRetries(retries))
           ELSE /\ retries' = retries
                /\ xml_response' = WriteCallback(response_buffer, o.body)
                /\ pc' = AfterFetch(retries)
    /\ inFlight' = TransferDone(inFlight)
    /\ UNCHANGED << url, calls, lr_result, started, gap, callWaits, callReqs >>
    /\ UNCHANGED << exit_code, dbVars, cfgVars, envVars, loopVars >>

\* the rateLimitWait() of the catch block, then the next loop test
RateLimitWaitRetry ==
    /\ pc = "lr_wait"
    /\ \E jit \in 0 .. MaxJitter :
           elapsed' = Sat(elapsed + RetryWaitDuration + jit)
    /\ callWaits' = callWaits + 1
    /\ pc' = AfterLoopCheck(retries)
    /\ UNCHANGED << url, calls, retries, xml_response, response_buffer, lr_result,
                    inFlight, started, gap, callReqs, attempts >>
    /\ UNCHANGED << exit_code, dbVars, cfgVars, envVars, loopVars >>

\* after the loop: the empty check and the parse; listRecords returns
ListRecordsReturn ==
    /\ pc = "lr_return"
    /\ lr_result' = ListRecordsResult(xml_response)
    /\ pc' = "hs_got"
    /\ UNCHANGED << url, calls, retries, xml_response, response_buffer, inFlight,
                    started, gap, callWaits, callReqs, attempts, elapsed >>
    /\ UNCHANGED << exit_code, dbVars, cfgVars, envVars, loopVars >>

(***************************************************************************)
(* Database, Harvester and main.                                           *)
(***************************************************************************)
\* a getMissingDates whose result depends on the calls made so far
GetMissingDatesDrifting(start, end, set_spec) ==
    IF calls = <<>> THEN << start >> ELSE << start, end >>

\* Harvester::getMissingDates: the placeholder returns the start date alone
GetMissingDates(start, end, set_spec) == << start >>

\* an insertRecords that sends its statement: one row per record
InsertRecordsSent(stored, records) ==
    { r \in stored : \A k \in DOMAIN records :
                         r.header_identifier # records[k].header_identifier }
        \cup { [ header_identifier |-> records[k].header_identifier,
                 header_datestamp  |-> records[k].header_datestamp,
                 header_setSpecs   |-> records[k].header_setSpecs ] :
                   k \in DOMAIN records }

\* Harvester::insertRecords: the rows of the table after the call; the
\* statement is built and never sent
InsertRecords(stored, records) == stored

\* Harvester::insertRecords: the records counted as skipped; the try block
\* sends no statement, its catch block counts nothing
InsertSkipped(records) == 0

\* a harvestSetSpec that reports the records that reached the store
HarvestSetSpecCountStored(res) ==
    IF res.kind # "returned" THEN 0 - 1
    ELSE Cardinality({ k \in DOMAIN res.records :
                           \E r \in InsertRecords({}, res.records) :
                               r.header_identifier = res.records[k].header_identifier })

\* Harvester::harvestSetSpec: the value returned for a listRecords result
HarvestSetSpecCount(res) ==
    IF res.kind # "returned" THEN 0 - 1
    ELSE IF res.records = <<>> THEN 0
    ELSE Len(res.records)

\* a harvestRecent that counts a set without records as failed
RecentCountedZeroFails(n) == IF n > 0 THEN "successful" ELSE "failed"

\* a harvestRecent that counts a set without records in neither counter
RecentCountedOnlyRecords(n) ==
    IF n > 0 THEN "successful"
    ELSE IF n = 0 THEN "neither"
    ELSE "failed"

\* Harvester::harvestRecent: how a harvestSetSpec value is counted
RecentCounted(n) ==
    IF n > 0 THEN "successful"
    ELSE IF n = 0 THEN "successful"
    ELSE "failed"

\* a harvestRecent that leaves the loop when a set returned no records
RecentHasNextUnlessEmpty(idx) == idx < Len(SetSpecs) /\ lr_result.records # <<>>

\* harvestRecent: set idx is followed by another set of the loop
RecentHasNext(idx) == idx < Len(SetSpecs)

\* a harvestRecent that goes from one set to the next without waiting
InterTopicWaitNone(idx) == 0

\* harvestRecent: the sleep_for after set idx, taken if (i < set_specs.size() - 1)
InterTopicWait(idx) == IF idx < Len(SetSpecs) THEN rate_limit_delay_ ELSE 0

\* a harvestBackfill that gives up a set's remaining dates after a date
\* without records
BackfillHasNextDateUnlessEmpty(jj, n) == jj < n /\ lr_result.records # <<>>

\* harvestBackfill: date jj of n is followed by another date of the set
BackfillHasNextDate(jj, n) == jj < n

\* a harvestBackfill that also waits after the last chunk of a set
ChunkWaitAfterEveryChunk(jj, n) ==
    IF jj % ChunkSize = 0 \/ jj = n THEN ChunkDelay ELSE 0

\* harvestBackfill: the sleep_for(seconds(5)) after date jj of n, taken when
\* the date ends a chunk (end_idx reached) and end_idx < missing_dates.size()
ChunkWait(jj, n) ==
    IF (jj % ChunkSize = 0 \/ jj = n) /\ jj < n THEN ChunkDelay ELSE 0

\* harvestBackfill: start_date.empty() ? "2007-01-01" : start_date
BackfillStart == IF start_date = "" THEN DefaultStart ELSE start_date
BackfillEnd   == IF end_date = "" THEN DefaultEnd ELSE end_date

\* harvestBackfill: the first set at or after position k that has missing
\* dates (sets without any are skipped by `continue`)
RECURSIVE FirstGapTopic(_)
FirstGapTopic(k) ==
    IF k > Len(SetSpecs) THEN k
    ELSE IF GetMissingDates(BackfillStart, BackfillEnd, SetSpecs[k]) # <<>> THEN k
    ELSE FirstGapTopic(k + 1)

\* the Database object: conn_ is "null", "open" (CONNECTION_OK) or "bad" (a
\* PGconn whose status is not CONNECTION_OK)
Handle ==
    [conn |-> conn_, connected |-> connected_, opened |-> db_opened, closed |-> db_closed]

SetHandle(h) ==
    /\ conn_' = h.conn
    /\ connected_' = h.connected
    /\ db_opened' = h.opened
    /\ db_closed' = h.closed

\* what PQconnectdb can return: a connection, a PGconn that failed to
\* connect, or NULL when it could not allocate one
PQconnectdbResults == {"open", "bad", "null"}

\* Database::connect up to its return or its throw: conn_ is assigned, and
\* connected_ is set only when PQstatus(conn_) is CONNECTION_OK
DatabaseConnect(h, res) ==
    [h EXCEPT !.conn = res,
              !.connected = IF res = "open" THEN TRUE ELSE h.connected,
              !.opened = h.opened + 1]

\* a disconnect that calls PQfinish without looking at conn_
DatabaseDisconnectUnguarded(h) ==
    [h EXCEPT !.conn = "null", !.connected = FALSE, !.closed = h.closed + 1]

\* Database::disconnect: if (conn_) { PQfinish; conn_ = nullptr; connected_ = false; }
DatabaseDisconnect(h) ==
    IF h.conn # "null"
    THEN [h EXCEPT !.conn = "null", !.connected = FALSE, !.closed = h.closed + 1]
    ELSE h

\* ~Database: disconnect()
Disconnect == SetHandle(DatabaseDisconnect(Handle))

\* Database::connect succeeds; Harvester is constructed
ConnectOk ==
    /\ pc = "main"
    /\ SetHandle(DatabaseConnect(Handle, "open"))
    /\ pc' = "dispatch_recent"
    /\ UNCHANGED << exit_code, tableExists, rows, cfgVars, envVars, clientVars, elapsed, loopVars >>

\* Database::connect throws; ~Database; main's catch returns 1
ConnectFail ==
    /\ pc = "main"
    /\ \E res \in PQconnectdbResults \ {"open"} :
           SetHandle(DatabaseDisconnect(DatabaseConnect(Handle, res)))
    /\ exit_code' = 1
    /\ pc' = "exited"
    /\ UNCHANGED << tableExists, rows, cfgVars, envVars, clientVars, elapsed, loopVars >>

\* ensureTableExists throws out of harvestRecent or harvestBackfill
EnsureTableFail ==
    /\ \/ pc = "dispatch_recent" /\ mode \in {"recent", "both"}
       \/ pc = "dispatch_backfill" /\ mode \in {"backfill", "both"}
    /\ tableExists' \in {tableExists, TRUE}
    /\ Disconnect
    /\ exit_code' = 1
    /\ pc' = "exited"
    /\ UNCHANGED << rows, cfgVars, envVars, clientVars, elapsed, loopVars >>

\* mode == "backfill": harvestRecent is not called
SkipRecent ==
    /\ pc = "dispatch_recent"
    /\ mode = "backfill"
    /\ pc' = "dispatch_backfill"
    /\ UNCHANGED << exit_code, dbVars, cfgVars, envVars, clientVars, elapsed, loopVars >>

\* harvestRecent up to the first listRecords wait
StartRecent ==
    /\ pc = "dispatch_recent"
    /\ mode \in {"recent", "both"}
    /\ tableExists' = TRUE
    /\ caller' = "recent"
    /\ total_records' = 0 /\ successful_sets' = 0 /\ failed_sets' = 0
    /\ IF Len(SetSpecs) = 0
       THEN /\ pc' = "dispatch_backfill"
            /\ i' = i
            /\ UNCHANGED clientVars
       ELSE /\ i' = 1
            /\ BeginCall(SetSpecs[1], RecentFrom, RecentUntil)
    /\ UNCHANGED << exit_code, handleVars, rows, cfgVars, envVars, elapsed,
                    missing_dates, j, chunk_waits, main_total >>

\* harvestSetSpec returns into harvestRecent: the counters, then either the
\* wait between set_specs or the return into main
RecentAccount ==
    /\ pc = "hs_got"
    /\ caller = "recent"
    /\ LET n == HarvestSetSpecCount(lr_result)
           counted == RecentCounted(n)
           total == IF n > 0 THEN total_records + n ELSE total_records
       IN  /\ rows' = IF lr_result.records = <<>> THEN rows
                      ELSE InsertRecords(rows, lr_result.records)
           /\ total_records' = total
           /\ successful_sets' = IF counted = "successful"
                                 THEN successful_sets + 1 ELSE successful_sets
           /\ failed_sets' = IF counted = "failed"
                             THEN failed_sets + 1 ELSE failed_sets
           /\ IF RecentHasNext(i)
              THEN /\ pc' = "recent_sleep"
                   /\ main_total' = main_total
              ELSE /\ pc' = "dispatch_backfill"
                   /\ main_total' = main_total + total
    /\ UNCHANGED << exit_code, handleVars, tableExists, cfgVars, envVars,
                    clientVars, elapsed, caller, i, missing_dates, j, chunk_waits >>

\* the wait between set_specs, then the next harvestSetSpec call
RecentSleep ==
    /\ pc = "recent_sleep"
    /\ \E jit \in 0 .. MaxJitter :
           elapsed' = Sat(elapsed + InterTopicWait(i) + jit)
    /\ i' = i + 1
    /\ BeginCall(SetSpecs[i + 1], RecentFrom, RecentUntil)
    /\ UNCHANGED << exit_code, dbVars, cfgVars, envVars, caller, missing_dates, j,
                    chunk_waits,
                    total_records, successful_sets, failed_sets, main_total >>

\* mode == "recent": harvestBackfill is not called
SkipBackfill ==
    /\ pc = "dispatch_backfill"
    /\ mode = "recent"
    /\ pc' = "main_done"
    /\ UNCHANGED << exit_code, dbVars, cfgVars, envVars, clientVars, elapsed, loopVars >>

\* the set at position k of harvestBackfill: its first date is requested,
\* or the loop is over and harvestBackfill returns into main
BackfillTopic(k, total) ==
    LET t == FirstGapTopic(k)
    IN  IF t > Len(SetSpecs)
        THEN /\ pc' = "main_done"
             /\ main_total' = main_total + total
             /\ UNCHANGED << i, missing_dates, j, clientVars >>
        ELSE LET dates == GetMissingDates(BackfillStart, BackfillEnd, SetSpecs[t])
             IN  /\ i' = t
                 /\ missing_dates' = dates
                 /\ j' = 1
                 /\ main_total' = main_total
                 /\ BeginCall(SetSpecs[t], dates[1], dates[1])

\* harvestBackfill up to the first listRecords wait
StartBackfill ==
    /\ pc = "dispatch_backfill"
    /\ mode \in {"backfill", "both"}
    /\ tableExists' = TRUE
    /\ caller' = "backfill"
    /\ total_records' = 0
    /\ chunk_waits' = 0
    /\ BackfillTopic(1, 0)
    /\ UNCHANGED << exit_code, handleVars, rows, cfgVars, envVars, elapsed,
                    successful_sets, failed_sets >>

\* harvestSetSpec returns into harvestBackfill
BackfillAccount ==
    /\ pc = "hs_got"
    /\ caller = "backfill"
    /\ LET n == HarvestSetSpecCount(lr_result)
       IN  /\ rows' = IF lr_result.records = <<>> THEN rows
                      ELSE InsertRecords(rows, lr_result.records)
           /\ total_records' = IF n > 0 THEN total_records + n ELSE total_records
    /\ pc' = "backfill_sleep"
    /\ UNCHANGED << exit_code, handleVars, tableExists, cfgVars, envVars,
                    clientVars, elapsed, caller, i, missing_dates, j, chunk_waits,
                    successful_sets, failed_sets, main_total >>

\* the wait after a date, the wait between chunks when the chunk is over and
\* dates remain, then the next date, the next set, or the return into main
BackfillSleep ==
    /\ pc = "backfill_sleep"
    /\ LET chunkWait == ChunkWait(j, Len(missing_dates))
       IN  /\ \E jit \in 0 .. MaxJitter :
                   elapsed' = Sat(elapsed + rate_limit_delay_ + chunkWait + jit)
           /\ chunk_waits' = IF chunkWait > 0 THEN chunk_waits + 1 ELSE chunk_waits
    /\ IF BackfillHasNextDate(j, Len(missing_dates))
       THEN /\ j' = j + 1
            /\ BeginCall(SetSpecs[i], missing_dates[j + 1], missing_dates[j + 1])
            /\ UNCHANGED << i, missing_dates, main_total >>
       ELSE BackfillTopic(i + 1, total_records)
    /\ UNCHANGED << exit_code, dbVars, cfgVars, envVars, caller, total_records,
                    successful_sets, failed_sets >>

\* main: db.disconnect(), return 0, ~Database
Finish ==
    /\ pc = "main_done"
    /\ SetHandle(DatabaseDisconnect(DatabaseDisconnect(Handle)))
    /\ exit_code' = 0
    /\ pc' = "exited"
    /\ UNCHANGED << tableExists, rows, cfgVars, envVars, clientVars, elapsed, loopVars >>

Next ==
    \/ ConnectOk
    \/ ConnectFail
    \/ EnsureTableFail
    \/ SkipRecent
    \/ StartRecent
    \/ RateLimitWait0
    \/ FetchStart
    \/ FetchEnd
    \/ RateLimitWaitRetry
    \/ ListRecordsReturn
    \/ RecentAccount
    \/ RecentSleep
    \/ SkipBackfill
    \/ StartBackfill
    \/ BackfillAccount
    \/ BackfillSleep
    \/ Finish

Spec == Init /\ [][Next]_vars

(***************************************************************************)
(* The parser alone: parseXmlResponse applied to one response body, as the *)
(* last step of a listRecords call whose first request returned HTTP 200.  *)
(* The bodies are built from every short sequence of header children and   *)
(* of Dublin Core children, with the records either directly under the     *)
(* root (the shape the parser walks) or inside <ListRecords> (the shape    *)
(* the protocol sends).                                                    *)
(***************************************************************************)
SeqsUpTo(S, n) == UNION { [1 .. m -> S] : m \in 0 .. n }

Texts == {"A", "B"}
HeaderTags == {"identifier", "datestamp", "setSpec"}
DcTags == {"creator", "date", "description", "identifier", "subject",
           "title", "type", "rights"}
HeaderLeaves == { Leaf(t, x) : t \in HeaderTags, x \in Texts }
                    \cup { Leaf("identifier", "") }
DcLeaves == { Leaf(t, x) : t \in DcTags, x \in Texts }

\* <record><header>h</header><metadata><oai_dc:dc>m</oai_dc:dc></metadata></record>
RecordOf(h, m) ==
    Elem("record", << Elem("header", h), Elem("metadata", << Elem("dc", m) >>) >>)

PlainHeader == << Leaf("identifier", "A"), Leaf("datestamp", "B"),
                  Leaf("setSpec", "A") >>
PlainDc == << Leaf("title", "A"), Leaf("creator", "B") >>

\* records that vary in one part and are plain in the other
VariedRecords ==
    { RecordOf(h, PlainDc) : h \in SeqsUpTo(HeaderLeaves, MaxHeaderKids) }
        \cup { RecordOf(PlainHeader, m) : m \in SeqsUpTo(DcLeaves, MaxDcKids) }

\* the records of the longer pages: two that differ and one without identifier
PageRecords ==
    { RecordElem("oai:arXiv.org:1", "2021-01-01", "T1"),
      RecordElem("", "2021-01-01", "T0"),
      RecordElem("oai:arXiv.org:2", "2021-01-02", "T2") }

RecordLists ==
    { << r >> : r \in VariedRecords } \cup SeqsUpTo(PageRecords, MaxRecs)

FlatDoc(recs) == Envelope(recs)
WrappedDoc(recs) == Envelope(<< Elem("ListRecords", recs) >>)
ParserDocs ==
    { FlatDoc(recs) : recs \in RecordLists }
        \cup { WrappedDoc(recs) : recs \in RecordLists }

InitParser ==
    /\ pc = "lr_return"
    /\ mode = "recent"
    /\ start_date = "" /\ end_date = ""
    /\ exit_code = -1
    /\ conn_ = "open" /\ connected_ = TRUE
    /\ db_opened = 1 /\ db_closed = 0
    /\ tableExists = TRUE
    /\ rows = {}
    /\ max_retries_ = 1
    /\ rate_limit_delay_ = 1
    /\ url = BuildUrl(SetSpecs[1], RecentFrom, RecentUntil)
    /\ retries = 0
    /\ xml_response \in ParserDocs
    /\ response_buffer = xml_response
    /\ lr_result = NoResult
    /\ inFlight = 0
    /\ started = TRUE
    /\ elapsed = 0
    /\ gap = NoGap
    /\ callWaits = 1
    /\ callReqs = << url >>
    /\ attempts = << [curl |-> "OK", status |-> 200, body |-> xml_response] >>
    /\ calls = << url >>
    /\ caller = "recent"
    /\ i = 1
    /\ missing_dates = <<>>
    /\ j = 0
    /\ chunk_waits = 0
    /\ total_records = 0 /\ successful_sets = 0 /\ failed_sets = 0
    /\ main_total = 0
    /\ cancel_requested = FALSE
    /\ NoJson
    /\ NoLimiter

NextParser == ListRecordsReturn

SpecParser == InitParser /\ [][NextParser]_vars

(***************************************************************************)
(* The gap computation alone: harvestBackfill entered in mode backfill     *)
(* with a date range given on the command line, against a table that       *)
(* already holds rows of earlier runs.                                     *)
(***************************************************************************)
\* the calendar days the command line and the stored rows range over
DayNames == << "2021-01-01", "2021-01-02", "2021-01-03", "2021-01-04",
               "2021-01-05", "2021-01-06", "2021-01-07", "2021-01-08",
               "2021-01-09", "2021-01-10", "2021-01-11", "2021-01-12" >>
GapDays == { DayNames[n] : n \in 1 .. MaxGapDay }
DayNum(d) == CHOOSE n \in DOMAIN DayNames : DayNames[n] = d

\* a row of the table: the columns the gap computation would read
StoredRow(id, day, sets) ==
    [header_identifier |-> id, header_datestamp |-> day, header_setSpecs |-> sets]
\* one physics row per day, and a math row on the second day
RowPool ==
    { StoredRow(DayNames[n], DayNames[n], << "physics" >>) : n \in 1 .. MaxGapDay }
        \cup { StoredRow("oai:arXiv.org:m", DayNames[2], << "math" >>) }

InitGap ==
    /\ pc = "dispatch_backfill"
    /\ mode = "backfill"
    /\ start_date \in GapDays
    /\ end_date \in GapDays
    /\ exit_code = -1
    /\ conn_ = "open" /\ connected_ = TRUE
    /\ db_opened = 1 /\ db_closed = 0
    /\ tableExists = TRUE
    /\ rows \in SUBSET RowPool
    /\ max_retries_ = 1
    /\ rate_limit_delay_ = 1
    /\ url = NoUrl
    /\ retries = 0
    /\ xml_response = EmptyBody
    /\ response_buffer = EmptyBody
    /\ lr_result = NoResult
    /\ inFlight = 0
    /\ started = FALSE
    /\ elapsed = 0
    /\ gap = NoGap
    /\ callWaits = 0
    /\ callReqs = <<>>
    /\ attempts = <<>>
    /\ calls = <<>>
    /\ caller = ""
    /\ i = 0
    /\ missing_dates = <<>>
    /\ j = 0
    /\ chunk_waits = 0
    /\ total_records = 0 /\ successful_sets = 0 /\ failed_sets = 0
    /\ main_total = 0
    /\ cancel_requested = FALSE
    /\ NoJson
    /\ NoLimiter

NextGap == StartBackfill

SpecGap == InitGap /\ [][NextGap]_vars

(***************************************************************************)
(* The run of main with an external cancellation request, which may be     *)
(* raised at any moment of the run.  No statement of main, Harvester or    *)
(* OaiClient reads it.                                                     *)
(***************************************************************************)
runVars  == << pc, exit_code, dbVars, cfgVars, clientVars, elapsed, loopVars >>
progVars == << runVars, jsonVars >>

RaiseCancel ==
    /\ ~cancel_requested
    /\ pc # "exited"
    /\ cancel_requested' = TRUE
    /\ UNCHANGED << progVars, limiterVars >>

NextCancel ==
    \/ Next
    \/ RaiseCancel

SpecCancel == Init /\ [][NextCancel]_vars

(***************************************************************************)
(* class RateLimiter alone: one object, its member functions called in any *)
(* order with any time passing between the calls.  Time is steady_clock's  *)
(* reading in milliseconds, in steps of LimiterStep up to LimiterHorizon   *)
(* seconds.                                                                *)
(***************************************************************************)
\* RateLimiter::RateLimiter: delay_ms_(delay_seconds * 1000)
RateLimiterDelayMs(delay_seconds) == delay_seconds * MsPerSecond

LimiterEnd == LimiterHorizon * MsPerSecond
\* sleep_for returns at the requested time or one step later
Oversleep == {0, LimiterStep}

\* a wait_before_request that never sleeps
LimiterRemainingNone(elapsed_ms) == 0

\* wait_before_request: auto remaining = delay_ms_ - elapsed_ms
LimiterRemaining(elapsed_ms) == delay_ms_ - elapsed_ms

InitLimiter ==
    /\ pc = "main"
    /\ mode = "recent"
    /\ start_date = "" /\ end_date = ""
    /\ exit_code = -1
    /\ conn_ = "null" /\ connected_ = FALSE
    /\ db_opened = 0 /\ db_closed = 0
    /\ tableExists = FALSE
    /\ rows = {}
    /\ max_retries_ = 1
    /\ rate_limit_delay_ = 1
    /\ url = NoUrl
    /\ retries = 0
    /\ xml_response = EmptyBody
    /\ response_buffer = EmptyBody
    /\ lr_result = NoResult
    /\ inFlight = 0
    /\ started = FALSE
    /\ elapsed = 0
    /\ gap = NoGap
    /\ callWaits = 0
    /\ callReqs = <<>>
    /\ attempts = <<>>
    /\ calls = <<>>
    /\ caller = ""
    /\ i = 0
    /\ missing_dates = <<>>
    /\ j = 0
    /\ chunk_waits = 0
    /\ total_records = 0 /\ successful_sets = 0 /\ failed_sets = 0
    /\ main_total = 0
    /\ cancel_requested = FALSE
    /\ NoJson
    /\ now = LimiterStep
    /\ last_request_ = 0
    /\ delay_ms_ \in { RateLimiterDelayMs(d) : d \in DelayCfg }
    /\ lim_op = "none" /\ lim_prev = 0 /\ lim_slept = 0

\* time passes between two calls
LimiterTick ==
    /\ now + LimiterStep <= LimiterEnd
    /\ now' = now + LimiterStep
    /\ lim_op' = "tick" /\ lim_prev' = 0 /\ lim_slept' = 0
    /\ UNCHANGED << last_request_, delay_ms_, cancel_requested, progVars >>

\* RateLimiter::wait_before_request
WaitBeforeRequest ==
    LET elapsed_ms == now - last_request_
        sleep == IF last_request_ > 0 /\ elapsed_ms < delay_ms_
                 THEN LimiterRemaining(elapsed_ms)
                 ELSE 0
    IN  \E over \in Oversleep :
            /\ now + sleep + over <= LimiterEnd
            /\ now' = now + sleep + over
            /\ last_request_' = now + sleep + over
            /\ lim_op' = "wait_before_request"
            /\ lim_prev' = last_request_
            /\ lim_slept' = sleep
            /\ UNCHANGED << delay_ms_, cancel_requested, progVars >>

\* the body shared by wait_between_batches and wait_between_set_specs
WaitFullDelay(name) ==
    \E over \in Oversleep :
        /\ now + delay_ms_ + over <= LimiterEnd
        /\ now' = now + delay_ms_ + over
        /\ last_request_' = now + delay_ms_ + over
        /\ lim_op' = name
        /\ lim_prev' = last_request_
        /\ lim_slept' = delay_ms_
        /\ UNCHANGED << delay_ms_, cancel_requested, progVars >>

\* RateLimiter::wait_between_batches
WaitBetweenBatches == WaitFullDelay("wait_between_batches")

\* RateLimiter::wait_between_set_specs
WaitBetweenSetSpecs == WaitFullDelay("wait_between_set_specs")

NextLimiter ==
    \/ LimiterTick
    \/ WaitBeforeRequest
    \/ WaitBetweenBatches
    \/ WaitBetweenSetSpecs

SpecLimiter == InitLimiter /\ [][NextLimiter]_vars

(***************************************************************************)
(* The loops of harvestBackfill alone, for any result of getMissingDates:  *)
(* the first set has been entered with a sequence of 1 .. MaxDates dates   *)
(* and the call for its first date has begun.  The sets after it are       *)
(* entered as the code enters them.                                        *)
(***************************************************************************)
\* the first n calendar days, ascending
DatesUpTo(n) == [ k \in 1 .. n |-> DayNames[k] ]

InitChunk ==
    /\ pc = "lr_wait0"
    /\ mode = "backfill"
    /\ start_date = DayNames[1] /\ end_date = ""
    /\ exit_code = -1
    /\ conn_ = "open" /\ connected_ = TRUE
    /\ db_opened = 1 /\ db_closed = 0
    /\ tableExists = TRUE
    /\ rows = {}
    /\ max_retries_ = 2
    /\ rate_limit_delay_ = 1
    /\ missing_dates \in { DatesUpTo(n) : n \in 1 .. MaxDates }
    /\ url = BuildUrl(SetSpecs[1], missing_dates[1], missing_dates[1])
    /\ retries = 0
    /\ xml_response = EmptyBody
    /\ response_buffer = EmptyBody
    /\ lr_result = NoResult
    /\ inFlight = 0
    /\ started = FALSE
    /\ elapsed = 0
    /\ gap = NoGap
    /\ callWaits = 0
    /\ callReqs = <<>>
    /\ attempts = <<>>
    /\ calls = << url >>
    /\ caller = "backfill"
    /\ i = 1
    /\ j = 1
    /\ chunk_waits = 0
    /\ total_records = 0 /\ successful_sets = 0 /\ failed_sets = 0
    /\ main_total = 0
    /\ cancel_requested = FALSE
    /\ NoJson
    /\ NoLimiter

NextChunk ==
    \/ RateLimitWait0
    \/ FetchStart
    \/ FetchEnd
    \/ RateLimitWaitRetry
    \/ ListRecordsReturn
    \/ BackfillAccount
    \/ BackfillSleep
    \/ Finish

SpecChunk == InitChunk /\ [][NextChunk]_vars

(***************************************************************************)
(* JsonHelper: vectorToJson and jsonToVector over nlohmann::json.  A       *)
(* std::string is a sequence of bytes and so is a JSON text; "xFF" stands  *)
(* for the byte 0xFF, which no UTF-8 text contains.                        *)
(***************************************************************************)
JsonBytes == {"a", ",", "\"", "\\", "xFF"}
JsonStrings == SeqsUpTo(JsonBytes, MaxStrLen)
JsonVectors == SeqsUpTo(JsonStrings, MaxVecLen)

\* json::dump checks every string for well-formed UTF-8
ValidUtf8(str) == \A k \in DOMAIN str : str[k] # "xFF"

\* json::dump: a quotation mark and a reverse solidus are written behind a
\* reverse solidus, every other byte of these strings as it is
EscapeByte(b) ==
    IF b = "\"" THEN << "\\", "\"" >>
    ELSE IF b = "\\" THEN << "\\", "\\" >>
    ELSE << b >>

RECURSIVE DumpEscaped(_)
DumpEscaped(str) ==
    IF str = <<>> THEN <<>> ELSE EscapeByte(Head(str)) \o DumpEscaped(Tail(str))

\* json::dump of a string value
DumpString(str) == << "\"" >> \o DumpEscaped(str) \o << "\"" >>

\* json::dump of the elements of an array, without indentation
RECURSIVE DumpItems(_)
DumpItems(vec) ==
    IF vec = <<>> THEN <<>>
    ELSE IF Len(vec) = 1 THEN DumpString(vec[1])
    ELSE DumpString(Head(vec)) \o << "," >> \o DumpItems(Tail(vec))

\* json::dump of an array
DumpArray(vec) == << "[" >> \o DumpItems(vec) \o << "]" >>

\* JsonHelper::vectorToJson: push_back of every item, then dump(), which
\* throws json::type_error 316 on a string that is not UTF-8
VectorToJsonOf(vec) ==
    IF \A k \in DOMAIN vec : ValidUtf8(vec[k])
    THEN [kind |-> "returned", text |-> DumpArray(vec)]
    ELSE [kind |-> "type_error", text |-> <<>>]

JsonParseError == [ok |-> FALSE, items |-> <<>>]

\* json::parse inside a string, after its opening quotation mark
RECURSIVE ScanString(_, _, _)
ScanString(text, pos, acc) ==
    IF pos > Len(text) THEN [ok |-> FALSE, value |-> <<>>, next |-> pos]
    ELSE IF text[pos] = "\"" THEN [ok |-> TRUE, value |-> acc, next |-> pos + 1]
    ELSE IF text[pos] = "\\"
         THEN IF pos + 1 <= Len(text) /\ text[pos + 1] \in {"\"", "\\"}
              THEN ScanString(text, pos + 2, Append(acc, text[pos + 1]))
              ELSE [ok |-> FALSE, value |-> <<>>, next |-> pos]
    ELSE IF text[pos] = "xFF" THEN [ok |-> FALSE, value |-> <<>>, next |-> pos]
    ELSE ScanString(text, pos + 1, Append(acc, text[pos]))

\* json::parse at the start of an array element; of the values of JSON
\* only strings begin with a byte of JsonBytes
RECURSIVE ParseItems(_, _, _)
ParseItems(text, pos, acc) ==
    IF pos > Len(text) \/ text[pos] # "\"" THEN JsonParseError
    ELSE LET str == ScanString(text, pos + 1, <<>>)
         IN  IF ~str.ok \/ str.next > Len(text) THEN JsonParseError
             ELSE IF text[str.next] = ","
                  THEN ParseItems(text, str.next + 1, Append(acc, str.value))
             ELSE IF text[str.next] = "]" /\ str.next = Len(text)
                  THEN [ok |-> TRUE, items |-> Append(acc, str.value)]
             ELSE JsonParseError

\* json::parse of a text that is an array
ParseArray(text) ==
    IF Len(text) < 2 \/ text[1] # "[" THEN JsonParseError
    ELSE IF text[2] = "]"
         THEN IF Len(text) = 2 THEN [ok |-> TRUE, items |-> <<>>] ELSE JsonParseError
    ELSE ParseItems(text, 2, <<>>)

\* JsonHelper::jsonToVector: the string items of the parsed array, in
\* order; a json::parse_error is caught and leaves the result empty
JsonToVectorOf(text) ==
    LET parsed == ParseArray(text)
    IN  IF parsed.ok THEN parsed.items ELSE <<>>

InitJson ==
    /\ pc = "main"
    /\ mode = "recent"
    /\ start_date = "" /\ end_date = ""
    /\ exit_code = -1
    /\ conn_ = "null" /\ connected_ = FALSE
    /\ db_opened = 0 /\ db_closed = 0
    /\ tableExists = FALSE
    /\ rows = {}
    /\ max_retries_ = 1
    /\ rate_limit_delay_ = 1
    /\ url = NoUrl
    /\ retries = 0
    /\ xml_response = EmptyBody
    /\ response_buffer = EmptyBody
    /\ lr_result = NoResult
    /\ inFlight = 0
    /\ started = FALSE
    /\ elapsed = 0
    /\ gap = NoGap
    /\ callWaits = 0
    /\ callReqs = <<>>
    /\ attempts = <<>>
    /\ calls = <<>>
    /\ caller = ""
    /\ i = 0
    /\ missing_dates = <<>>
    /\ j = 0
    /\ chunk_waits = 0
    /\ total_records = 0 /\ successful_sets = 0 /\ failed_sets = 0
    /\ main_total = 0
    /\ cancel_requested = FALSE
    /\ NoLimiter
    /\ json_vec \in JsonVectors
    /\ json_str = <<>> /\ json_result = <<>>
    /\ json_op = "input"

\* JsonHelper::vectorToJson returns or throws
VectorToJson ==
    /\ json_op = "input"
    /\ LET r == VectorToJsonOf(json_vec)
       IN  /\ json_str' = r.text
           /\ json_op' = IF r.kind = "returned" THEN "vectorToJson" ELSE "type_error"
    /\ UNCHANGED << json_vec, json_result, cancel_requested, limiterVars, runVars >>

\* JsonHelper::jsonToVector on the text vectorToJson returned
JsonToVector ==
    /\ json_op = "vectorToJson"
    /\ json_result' = JsonToVectorOf(json_str)
    /\ json_op' = "jsonToVector"
    /\ UNCHANGED << json_vec, json_str, cancel_requested, limiterVars, runVars >>

NextJson == VectorToJson \/ JsonToVector

SpecJson == InitJson /\ [][NextJson]_vars

(***************************************************************************)
(* The classification of responses the specification uses.                 *)
(***************************************************************************)
\* transport failure, HTTP 429 or HTTP 503
Retryable(o) == o.curl # "OK" \/ o.status \in HttpRetryable
\* HTTP status >= 400 other than 429 and 503
Rejected(o) == o.curl = "OK" /\ o.status >= 400 /\ o.status \notin HttpRetryable
\* HTTP 2xx
Success2xx(o) == o.curl = "OK" /\ o.status >= 200 /\ o.status < 300

ErrorCodes(body) ==
    IF body.kind # "xml" THEN {}
    ELSE { body.root.kids[k].code :
               k \in { x \in DOMAIN body.root.kids : body.root.kids[x].name = "error" } }
\* the "no records match" signal
EmptySignal(body) == "noRecordsMatch" \in ErrorCodes(body)
\* a protocol error code other than the empty-result signal
GenuineError(body) == ErrorCodes(body) \ {"noRecordsMatch"} # {}
\* a resumptionToken under the root or under its <ListRecords>
TokenIn(kids) ==
    \E k \in DOMAIN kids : kids[k].name = "resumptionToken" /\ kids[k].text # ""
HasToken(body) ==
    /\ body.kind = "xml"
    /\ \/ TokenIn(body.root.kids)
       \/ \E k \in DOMAIN body.root.kids :
              body.root.kids[k].name = "ListRecords" /\ TokenIn(body.root.kids[k].kids)

InCall == pc \in {"lr_wait0", "lr_fetch", "lr_fetching", "lr_wait", "lr_return", "hs_got"}
CallEnded == pc = "hs_got"
LastAttempt == attempts[Len(attempts)]
AllAttempts(P(_)) == attempts # <<>> /\ \A k \in DOMAIN attempts : P(attempts[k])
SuccessEmpty == [kind |-> "returned", records |-> <<>>]

(***************************************************************************)
(* Claims.                                                                 *)
(***************************************************************************)

\* C1: whenever a physical request starts after an earlier one, the time
\* between the two request starts is at least the configured rate-limit
\* delay (within a call, retries included, and across calls).
C1_Pacing == gap # NoGap => gap >= rate_limit_delay_

\* C1 witness: a retried request is in flight that started exactly the
\* delay after the failed one, in the second listRecords call of the run.
C1_Witness ==
    /\ pc = "lr_fetching" /\ Len(callReqs) = 2 /\ i = 2
    /\ gap = rate_limit_delay_ /\ rate_limit_delay_ = MaxDelay

\* C2: at every point of a listRecords call the number of completed
\* rate-limit waits equals the number of physical requests started (plus the
\* one wait whose request is about to start), and no request is started
\* without its own preceding wait.
C2_WaitPerRequest ==
    InCall => /\ Len(callReqs) <= callWaits
              /\ callWaits = Len(callReqs) + (IF pc = "lr_fetch" THEN 1 ELSE 0)

\* C3: a call all of whose attempts ended in a retryable failure ends in an
\* error of kind Exhausted, which differs from a successful empty result.
C3_ExhaustedIsError ==
    (CallEnded /\ AllAttempts(Retryable))
        => lr_result.kind = "Exhausted" /\ lr_result # SuccessEmpty

\* C4: with max_retries_ >= 1, a call all of whose attempts ended in a
\* retryable failure has issued exactly max_retries_ requests, all to the
\* URL of the call, when it ends; and the first request of every call is
\* started with the attempt counter at zero.
C4_ExactlyMaxRetries ==
    /\ (CallEnded /\ max_retries_ >= 1 /\ AllAttempts(Retryable))
           => /\ Len(callReqs) = max_retries_
              /\ \A k \in DOMAIN callReqs : callReqs[k] = url
    /\ (pc = "lr_fetch" /\ callReqs = <<>>) => retries = 0

\* C4 witness: the second call of the run ended after two attempts, both
\* retryable failures, with max_retries_ = 2.
C4_Witness ==
    /\ CallEnded /\ i = 2 /\ max_retries_ = 2
    /\ AllAttempts(Retryable) /\ Len(callReqs) = 2

\* C5: a call that met an HTTP status >= 400 other than 429 and 503 ends
\* after exactly one physical request, with kind Rejected.
C5_RejectedOnce ==
    (CallEnded /\ \E k \in DOMAIN attempts : Rejected(attempts[k]))
        => Len(callReqs) = 1 /\ lr_result.kind = "Rejected"

\* C6: a call whose last response is HTTP 2xx with the "no records match"
\* signal returns the empty record sequence as success, and harvestRecent
\* counts that set as successful and adds no record to its total.
C6_EmptySignalIsSuccess ==
    /\ [](CallEnded /\ attempts # <<>> /\ Success2xx(LastAttempt)
              /\ EmptySignal(LastAttempt.body)
            => lr_result = SuccessEmpty)
    /\ [][(CallEnded /\ caller = "recent" /\ attempts # <<>>
              /\ Success2xx(LastAttempt) /\ EmptySignal(LastAttempt.body))
            => /\ successful_sets' = successful_sets + 1
               /\ failed_sets' = failed_sets
               /\ total_records' = total_records]_vars

\* C6 witness: harvestRecent has counted its first set, whose response was
\* the "no records match" signal.
C6_Witness ==
    /\ pc = "recent_sleep" /\ i = 1 /\ attempts # <<>>
    /\ Success2xx(LastAttempt) /\ EmptySignal(LastAttempt.body)
    /\ successful_sets = 1 /\ failed_sets = 0 /\ total_records = 0

\* C7: a call whose last response is HTTP 2xx with a protocol error code
\* other than the empty-result signal fails with kind ProtocolError, an
\* outcome that differs from the one for the empty-result signal.
C7_ProtocolError ==
    (CallEnded /\ attempts # <<>> /\ Success2xx(LastAttempt)
        /\ GenuineError(LastAttempt.body))
        => lr_result.kind = "ProtocolError" /\ lr_result # SuccessEmpty

\* C8: a call ends on an HTTP 2xx response whose body cannot be parsed only
\* when its max_retries_ attempts are used up, and never as an empty
\* successful result.
C8_UnparsableRetried ==
    (CallEnded /\ attempts # <<>> /\ Success2xx(LastAttempt)
        /\ LastAttempt.body.kind = "garbage")
        => Len(attempts) >= max_retries_ /\ lr_result # SuccessEmpty

\* C9: a call that ends successfully ends on a response without a
\* continuation token: a response carrying one is followed by a further
\* request.
C9_TokenFollowed ==
    (CallEnded /\ attempts # <<>> /\ Success2xx(LastAttempt))
        => ~HasToken(LastAttempt.body)

\* C10: every listRecords call ends after a bounded number of physical
\* requests: it never starts more than max(max_retries_, 0) requests, and
\* every step taken inside a call stays in the call and decreases a
\* non-negative rank, so the call is over after at most Rank steps.
PcRank ==
    CASE pc = "lr_fetch"    -> 1
      [] pc = "lr_fetching" -> 0
      [] pc = "lr_wait"     -> 2
      [] pc = "lr_return"   -> 1
      [] OTHER              -> 0
Rank ==
    CASE pc = "lr_wait0" -> 3 * Max0(max_retries_) + 3
      [] pc \in {"lr_fetch", "lr_fetching", "lr_wait"}
                         -> 3 * Max0(max_retries_ - retries) + PcRank
      [] OTHER           -> PcRank
C10_BoundedCall ==
    /\ [](InCall => Len(callReqs) <= Max0(max_retries_) /\ Rank >= 0)
    /\ [][(InCall /\ ~CallEnded) => (InCall' /\ Rank' < Rank)]_vars

\* C10 witness: a call ended after max_retries_ requests against a source
\* that answered every one of them with a continuation token or a failure.
C10_Witness ==
    /\ CallEnded /\ max_retries_ = MaxRetriesCfg /\ Len(callReqs) = MaxRetriesCfg
    /\ Success2xx(LastAttempt) /\ HasToken(LastAttempt.body)

(***************************************************************************)
(* What a response holds, read off the document itself.                    *)
(***************************************************************************)
\* the elements of kids that are named tag, in sibling order
ChildrenNamed(kids, tag) ==
    LET Named(n) == n.name = tag IN SelectSeq(kids, Named)
\* the text values of the tag's elements among kids, in sibling order
TagValues(kids, tag) ==
    LET sel == ChildrenNamed(kids, tag) IN [k \in DOMAIN sel |-> sel[k].text]
\* the children of a record element's <header> and of its Dublin Core element
HeaderKidsOf(r) == r.kids[1].kids
DcKidsOf(r) == r.kids[2].kids[1].kids
\* the identifier of a record element ("" when its header has none)
IdentifierOf(r) ==
    LET ids == TagValues(HeaderKidsOf(r), "identifier")
    IN  IF ids = <<>> THEN "" ELSE ids[Len(ids)]
\* a header with one non-empty identifier and one datestamp
WellFormedHeader(r) ==
    /\ Len(TagValues(HeaderKidsOf(r), "identifier")) = 1
    /\ IdentifierOf(r) # ""
    /\ Len(TagValues(HeaderKidsOf(r), "datestamp")) = 1
\* the root's <ListRecords> elements and the record elements of the first one
ListRecordsElems(body) == ChildrenNamed(body.root.kids, "ListRecords")
ListedRecords(body) ==
    IF ListRecordsElems(body) = <<>> THEN <<>>
    ELSE ChildrenNamed(ListRecordsElems(body)[1].kids, "record")
\* the record elements directly under the root
RootRecords(body) == ChildrenNamed(body.root.kids, "record")
\* every record element of the response
AllRecords(body) == RootRecords(body) \o ListedRecords(body)
Parsed == pc = "hs_got" /\ xml_response.kind = "xml"

\* C11: a response whose root holds a <ListRecords> element with k record
\* elements, each with a well-formed header, is parsed into exactly k
\* records, in document order, each with the identifier, the datestamp and
\* the setSpec values of its header.
C11_ListRecordsParsed ==
    (Parsed /\ ListRecordsElems(xml_response) # <<>>
        /\ \A k \in DOMAIN ListedRecords(xml_response) :
               WellFormedHeader(ListedRecords(xml_response)[k]))
        => LET src == ListedRecords(xml_response)
               out == lr_result.records
           IN  /\ Len(out) = Len(src)
               /\ \A k \in DOMAIN src :
                      /\ out[k].header_identifier = IdentifierOf(src[k])
                      /\ << out[k].header_datestamp >>
                             = TagValues(HeaderKidsOf(src[k]), "datestamp")
                      /\ out[k].header_setSpecs
                             = TagValues(HeaderKidsOf(src[k]), "setSpec")

\* C12: no returned record (the records harvestSetSpec hands to
\* insertRecords) has an empty identifier, and when a response holds a
\* record element with an empty identifier, every other record element of
\* that response, with its non-empty identifier, is among the returned
\* records.
C12_EmptyIdDropped ==
    /\ \A k \in DOMAIN lr_result.records :
           lr_result.records[k].header_identifier # ""
    /\ (Parsed /\ \E k \in DOMAIN AllRecords(xml_response) :
                      IdentifierOf(AllRecords(xml_response)[k]) = "")
           => \A k \in DOMAIN AllRecords(xml_response) :
                  IdentifierOf(AllRecords(xml_response)[k]) # ""
                      => \E n \in DOMAIN lr_result.records :
                             lr_result.records[n].header_identifier
                                 = IdentifierOf(AllRecords(xml_response)[k])

\* C13: every returned record comes from a record element the parser read
\* (a record element under the root with a non-empty identifier), and each
\* of its multi-valued fields is the sequence of that tag's values in the
\* element, in sibling order, duplicates included.
ReadRecords(body) ==
    LET HasId(r) == IdentifierOf(r) # "" IN SelectSeq(RootRecords(body), HasId)
C13_OrderPreserved ==
    Parsed
        => LET src == ReadRecords(xml_response)
               out == lr_result.records
           IN  /\ Len(out) = Len(src)
               /\ \A k \in DOMAIN src :
                      /\ out[k].header_setSpecs
                             = TagValues(HeaderKidsOf(src[k]), "setSpec")
                      /\ out[k].metadata_creator
                             = TagValues(DcKidsOf(src[k]), "creator")
                      /\ out[k].metadata_date
                             = TagValues(DcKidsOf(src[k]), "date")
                      /\ out[k].metadata_identifier
                             = TagValues(DcKidsOf(src[k]), "identifier")
                      /\ out[k].metadata_subject
                             = TagValues(DcKidsOf(src[k]), "subject")
                      /\ out[k].metadata_title
                             = TagValues(DcKidsOf(src[k]), "title")

\* C13 witness: a record was returned whose two titles differ, in the order
\* the response had them.
C13_Witness ==
    /\ Parsed /\ Len(lr_result.records) = 1
    /\ lr_result.records[1].metadata_title = << "B", "A" >>
    /\ TagValues(DcKidsOf(RootRecords(xml_response)[1]), "title") = << "B", "A" >>

\* the days of S (numbers of DayNames) as dates in ascending order
RECURSIVE AscendingDates(_)
AscendingDates(S) ==
    IF S = {} THEN <<>>
    ELSE LET m == CHOOSE n \in S : \A k \in S : n <= k
         IN  << DayNames[m] >> \o AscendingDates(S \ {m})
\* the store holds a record of the topic with that date
HasStored(stored, topic, day) ==
    \E r \in stored :
        /\ r.header_datestamp = day
        /\ \E k \in DOMAIN r.header_setSpecs : r.header_setSpecs[k] = topic
\* the dates of from .. until without a stored record of the topic, ascending
MissingExpected(stored, topic, from, until) ==
    AscendingDates({ n \in DayNum(from) .. DayNum(until) :
                         ~HasStored(stored, topic, DayNames[n]) })
GapsComputed == caller = "backfill" /\ i >= 1

\* C14: the missing dates harvestBackfill works on for a topic are, in
\* ascending order and without repetition, exactly the dates of the range
\* for which the store holds no record of that topic.
C14_MissingDatesExact ==
    GapsComputed
        => missing_dates = MissingExpected(rows, SetSpecs[i], BackfillStart, BackfillEnd)

\* C15: with a start date later than the end date the missing dates are the
\* empty sequence and backfill makes no listRecords call.
C15_EmptyRange ==
    (caller = "backfill" /\ DayNum(BackfillStart) > DayNum(BackfillEnd))
        => missing_dates = <<>> /\ calls = <<>>

\* the batch of the last harvestSetSpec that returned, after its ingest
Ingested == ~InCall /\ lr_result.records # <<>>
\* the rows of the store with the identifier of a record
RowsOf(rec) == { r \in rows : r.header_identifier = rec.header_identifier }
\* a row carries the values of a record in its mutable columns
SameFields(r, rec) ==
    /\ r.header_datestamp = rec.header_datestamp
    /\ r.header_setSpecs = rec.header_setSpecs
    /\ r.metadata_creator = rec.metadata_creator
    /\ r.metadata_date = rec.metadata_date
    /\ r.metadata_description = rec.metadata_description
    /\ r.metadata_identifier = rec.metadata_identifier
    /\ r.metadata_subject = rec.metadata_subject
    /\ r.metadata_title = rec.metadata_title
    /\ r.metadata_type = rec.metadata_type

\* C16: after a batch was ingested, whether for the first time or again,
\* the store holds exactly one row for the identifier of each of its
\* records, with the values of that last write in its mutable columns; and
\* the store never holds two rows with one identifier.
C16_UpsertOneRow ==
    /\ \A r1 \in rows, r2 \in rows :
           r1.header_identifier = r2.header_identifier => r1 = r2
    /\ Ingested
           => \A k \in DOMAIN lr_result.records :
                  /\ Cardinality(RowsOf(lr_result.records[k])) = 1
                  /\ \A r \in RowsOf(lr_result.records[k]) :
                         SameFields(r, lr_result.records[k])

RecentUrls(n) == [ k \in 1 .. n |-> BuildUrl(SetSpecs[k], RecentFrom, RecentUntil) ]
InRecentLoop == caller = "recent" /\ (InCall \/ pc = "recent_sleep")

\* C18: the listRecords calls of the recent workflow are one call per
\* configured set, in configured order: while the workflow is at set i the
\* calls made are those of sets 1 .. i, and once it has returned the calls
\* made are those of all the sets, whatever the earlier calls ended in.
C18_EveryTopicOnce ==
    /\ InRecentLoop => calls = RecentUrls(i)
    /\ (caller = "recent" /\ ~InRecentLoop) => calls = RecentUrls(Len(SetSpecs))
    /\ caller = "backfill" /\ mode = "both"
           => /\ Len(calls) >= Len(SetSpecs)
              /\ SubSeq(calls, 1, Len(SetSpecs)) = RecentUrls(Len(SetSpecs))

\* C18 witness: the call for the second set has begun although the call for
\* the first set used up all its max_retries_ attempts on failures.
C18_Witness ==
    /\ pc = "lr_wait0" /\ caller = "recent" /\ i = 2
    /\ max_retries_ = MaxRetriesCfg /\ retries = max_retries_
    /\ calls = RecentUrls(2)

\* a call that ended in failure: every attempt failed (retries used up, or
\* rejected), or the last response carries a genuine protocol error
FailedCall ==
    /\ attempts # <<>>
    /\ \/ AllAttempts(Retryable)
       \/ Rejected(LastAttempt)
       \/ Success2xx(LastAttempt) /\ GenuineError(LastAttempt.body)

\* C19: when harvestRecent accounts for a set whose listRecords call ended
\* in failure, failed_sets grows by one and successful_sets stays.
C19_FailedTopicCounted ==
    [][(pc = "hs_got" /\ caller = "recent" /\ FailedCall)
           => (failed_sets' = failed_sets + 1 /\ successful_sets' = successful_sets)]_vars

\* C20: the process exits with 0 or 1, and it exits with 1 only when
\* nothing was harvested yet: once a listRecords call was made, whatever
\* fails afterwards, the exit code is 0.
C20_ExitCode ==
    /\ pc = "exited" => exit_code \in {0, 1}
    /\ (pc = "exited" /\ calls # <<>>) => exit_code = 0

\* C21: at most one physical request is in progress at any time, and one is
\* in progress only inside the listRecords call that started it: requests
\* of different calls, sets, dates and retries never overlap.
C21_OneInFlight ==
    /\ inFlight \in {0, 1}
    /\ inFlight = 1 <=> pc = "lr_fetching"
    /\ pc = "lr_fetching" => InCall /\ callReqs # <<>>

\* C21 witness: the retry of the second call of the run is in progress,
\* after three earlier requests of the run have ended.
C21_Witness ==
    /\ pc = "lr_fetching" /\ inFlight = 1
    /\ Len(calls) = 2 /\ Len(callReqs) = 2 /\ Len(attempts) = 1

\* the suspension points: the boundary after a set or a date, and the check
\* that precedes a physical request
AtBoundary == pc \in {"recent_sleep", "backfill_sleep"}
AtRequestCheck == pc = "lr_fetch"

\* C22: with the cancellation request raised, a step from a set or date
\* boundary begins no further listRecords call, a step from the check before
\* a request starts no physical request, and no step removes a stored row.
C22_CancelStops ==
    [][/\ (cancel_requested /\ AtBoundary) => pc' # "lr_wait0"
       /\ (cancel_requested /\ AtRequestCheck) => pc' # "lr_fetching"
       /\ cancel_requested => rows \subseteq rows']_vars

\* C23: when wait_before_request has returned, last_request_ is the time of
\* the return, and that time is at least delay_ms_ after the last_request_
\* an earlier call had recorded (whichever member function recorded it).
C23_LimiterSpacing ==
    lim_op = "wait_before_request"
        => /\ last_request_ = now
           /\ lim_prev > 0 => now - lim_prev >= delay_ms_

\* C23 witness: a call that came too early has slept the remaining time and
\* returned exactly delay_ms_ after the previous recorded time.
C23_Witness ==
    /\ lim_op = "wait_before_request" /\ lim_prev > 0
    /\ lim_slept > 0 /\ lim_slept < delay_ms_
    /\ now - lim_prev = delay_ms_ /\ last_request_ = now

C25_InterTopicWaits ==
    /\ [](pc = "recent_sleep" => caller = "recent" /\ i < Len(SetSpecs))
    /\ [][(pc = "hs_got" /\ caller = "recent")
             => IF i < Len(SetSpecs)
                THEN pc' = "recent_sleep" /\ i' = i
                ELSE pc' = "dispatch_backfill" /\ elapsed' = elapsed]_vars
    /\ [][pc = "recent_sleep"
             => /\ elapsed' >= Sat(elapsed + rate_limit_delay_)
                /\ i' = i + 1 /\ pc' = "lr_wait0"
                /\ calls' = Append(calls, BuildUrl(SetSpecs[i + 1], RecentFrom, RecentUntil))]_vars
    /\ [][(caller' = "recent" /\ Len(calls') > Len(calls) /\ i' > 1)
             => pc = "recent_sleep"]_vars

\* C25 witness: the wait after the first set has been taken although the
\* call for that set failed on every attempt, and the second set's call has
\* begun after that wait.
C25_Witness ==
    /\ pc = "lr_wait0" /\ caller = "recent" /\ i = 2 /\ Len(calls) = 2
    /\ retries = max_retries_ /\ max_retries_ >= 1
    /\ elapsed >= rate_limit_delay_

\* the calls harvestBackfill makes for the first n dates of set t
BackfillUrls(t, dates, n) ==
    [ k \in 1 .. n |-> BuildUrl(SetSpecs[t], dates[k], dates[k]) ]
InBackfillLoop == caller = "backfill" /\ (InCall \/ pc = "backfill_sleep")

\* C26: while harvestBackfill is at date j of set i, the last j listRecords
\* calls are those of the set's first j missing dates, each with from =
\* until = that date, in the detector's order; the position moves by one
\* date at a time, leaves a set only after its last date, and then enters
\* the next set at its first date, whatever the calls ended in; and when
\* harvestBackfill has returned, the last date of the last set was reached.
C26_EveryDateOwnCall ==
    /\ [](InBackfillLoop
             => /\ i \in DOMAIN SetSpecs /\ j \in DOMAIN missing_dates
                /\ Len(calls) >= j
                /\ SubSeq(calls, Len(calls) - j + 1, Len(calls))
                       = BackfillUrls(i, missing_dates, j)
                /\ InCall => url = BuildUrl(SetSpecs[i], missing_dates[j], missing_dates[j]))
    /\ []((caller = "backfill" /\ ~InBackfillLoop)
             => i = Len(SetSpecs) /\ j = Len(missing_dates))
    /\ [][(caller = "backfill" /\ i' = i /\ j' # j) => j' = j + 1]_vars
    /\ [][(caller = "backfill" /\ i' # i)
             => i' = i + 1 /\ j = Len(missing_dates) /\ j' = 1]_vars

\* C26 witness: the call for the second date of a set has begun although
\* the call for its first date failed on every attempt.
C26_Witness ==
    /\ pc = "lr_wait0" /\ caller = "backfill" /\ i = 1 /\ j = 2
    /\ retries = max_retries_ /\ max_retries_ >= 1
    /\ calls = BackfillUrls(1, missing_dates, 2)

\* the backfill calls made for set t, and the waits between chunks that the
\* sets 1 .. m are due given the calls made for them
CallsForSet(t) ==
    Cardinality({ k \in DOMAIN calls :
                      calls[k].set = SetSpecs[t] /\ calls[k].from = calls[k].until })
CeilDiv(n, d) == (n + d - 1) \div d
RECURSIVE ChunkWaitsDue(_)
ChunkWaitsDue(m) ==
    IF m = 0 THEN 0
    ELSE ChunkWaitsDue(m - 1) + CeilDiv(CallsForSet(m), ChunkSize) - 1

\* C27: the waits between chunks taken so far are those due for the sets
\* already finished, ceil(n / 7) - 1 for a set of n dates, plus one for
\* every full chunk of 7 dates that lies before the current date of the
\* current set; none follows a set's last chunk; and the wait after a date
\* is never shorter than the per-date wait.
C27_ChunkWaits ==
    /\ [](InBackfillLoop
             => chunk_waits = ChunkWaitsDue(i - 1) + (j - 1) \div ChunkSize)
    /\ []((caller = "backfill" /\ ~InBackfillLoop)
             => chunk_waits = ChunkWaitsDue(Len(SetSpecs)))
    /\ [][pc = "backfill_sleep"
             => elapsed' >= Sat(elapsed + rate_limit_delay_
                                   + (IF chunk_waits' > chunk_waits THEN ChunkDelay ELSE 0))]_vars

\* C27 witness: harvestBackfill has returned after a first set of eight
\* dates, with the one wait between its two chunks and no other.
C27_Witness ==
    /\ pc = "main_done" /\ caller = "backfill"
    /\ CallsForSet(1) = ChunkSize + 1 /\ chunk_waits = 1

\* C28: a topic for which the store holds a record on every date of the
\* range is skipped by harvestBackfill: no listRecords call is made for it.
C28_NoGapsSkipped ==
    \A k \in DOMAIN calls :
        caller = "backfill"
            => MissingExpected(rows, calls[k].set, BackfillStart, BackfillEnd) # <<>>

\* C29: the wait between a failed attempt and its retry lasts retryAfter
\* seconds, whatever the rate-limit delay is.
C29_RetryAfterWait == pc = "lr_wait" => RetryWaitDuration = RetryAfter

\* C30: when a physical request is about to start, its listRecords call has
\* completed one wait more than it has sent requests, and before the first
\* request of a run at least one full rate-limit delay has passed since the
\* run began.
C30_FirstRequestDelayed ==
    pc = "lr_fetch"
        => /\ callWaits = Len(callReqs) + 1
           /\ ~started => elapsed >= rate_limit_delay_

\* the first request of a run is about to start after exactly the longest
\* configured rate-limit delay, taken once.
C30_Witness ==
    /\ pc = "lr_fetch" /\ ~started
    /\ callWaits = 1 /\ callReqs = <<>>
    /\ elapsed = rate_limit_delay_ /\ rate_limit_delay_ = MaxDelay

\* C31: vectorToJson has a result for every vector of strings, and
\* jsonToVector of that result is the vector itself: same length, same
\* order, same duplicates.
C31_RoundTrip ==
    /\ json_op # "type_error"
    /\ json_op = "jsonToVector" => json_result = json_vec

\* C32: no attempt of a listRecords call follows an attempt that succeeded:
\* when attempt k is the first whose fetch returns, the call has then made
\* exactly k physical requests, makes no further one, and the body it parses
\* is the body of attempt k.
C32_StopsAtFirstSuccess ==
    /\ \A k \in DOMAIN attempts : k < Len(attempts) => FetchThrows(attempts[k])
    /\ Len(callReqs) = Len(attempts) + (IF pc = "lr_fetching" THEN 1 ELSE 0)
    /\ (attempts # <<>> /\ ~FetchThrows(LastAttempt))
           => /\ pc \notin {"lr_fetch", "lr_fetching", "lr_wait"}
              /\ xml_response = LastAttempt.body
              /\ CallEnded => lr_result = ListRecordsResult(LastAttempt.body)

\* a call ended whose first attempt failed and whose second attempt
\* succeeded with a page of records: two requests, the second body parsed.
C32_Witness ==
    /\ CallEnded /\ Len(attempts) = 2 /\ Len(callReqs) = 2
    /\ FetchThrows(attempts[1]) /\ ~FetchThrows(attempts[2])
    /\ attempts[2].body = FlatPageBody
    /\ lr_result.records # <<>>

\* C33: with max_retries_ zero or negative a listRecords call sends no
\* physical request, and what it returns is the empty record sequence a
\* successful harvest without records returns.
C33_NoRetriesNoRequest ==
    max_retries_ <= 0
        => /\ callReqs = <<>> /\ attempts = <<>> /\ ~started
           /\ CallEnded => lr_result = SuccessEmpty

\* a call ended with max_retries_ = 0 after its one wait, without a request.
C33_Witness ==
    /\ CallEnded /\ max_retries_ = 0
    /\ callWaits = 1 /\ callReqs = <<>> /\ lr_result = SuccessEmpty

\* C34: the buffer is empty while a transfer is going on, holds after a
\* transfer exactly the bytes that transfer received, and the body handed
\* to the parser is the body of the attempt that succeeded, without bytes of
\* a failed attempt or of an earlier call.
C34_BufferFresh ==
    /\ pc = "lr_fetching" => response_buffer = EmptyBody
    /\ (attempts # <<>> /\ pc # "lr_fetching") => response_buffer = LastAttempt.body
    /\ (attempts # <<>> /\ ~FetchThrows(LastAttempt))
           => xml_response = LastAttempt.body

\* the second call of a run ended with a page parsed after a first attempt
\* that failed with an HTTP error and a body of its own.
C34_Witness ==
    /\ CallEnded /\ Len(calls) = 2 /\ Len(attempts) = 2
    /\ FetchThrows(attempts[1]) /\ attempts[1].body = GarbageBody
    /\ ~FetchThrows(attempts[2]) /\ xml_response = OaiPageBody

\* C35: in harvestRecent the sets counted as successful and as failed add up
\* to the number of sets processed so far, one count per set; and accounting
\* for a set adds its record count to the running total when that count is
\* positive and leaves the total as it is otherwise, so the total never
\* decreases.
C35_TopicsCounted ==
    /\ [](caller = "recent"
              => /\ successful_sets + failed_sets = (IF InCall THEN i - 1 ELSE i)
                 /\ total_records >= 0)
    /\ [][(pc = "hs_got" /\ caller = "recent")
              => /\ total_records' = total_records + Max0(HarvestSetSpecCount(lr_result))
                 /\ total_records' >= total_records
                 /\ successful_sets' + failed_sets' = successful_sets + failed_sets + 1]_vars

\* harvestRecent has returned after two sets, the first with two records
\* and the second with none: two sets counted, a total of two records.
C35_Witness ==
    /\ pc = "dispatch_backfill" /\ caller = "recent" /\ i = 2
    /\ successful_sets + failed_sets = 2
    /\ total_records = 2 /\ lr_result.records = <<>>

\* C36: when harvestRecent or harvestBackfill accounts for a harvestSetSpec
\* call, the count it adds is the number of records listRecords returned,
\* whether or not insertRecords stored them.
C36_CountIsBatchSize ==
    [][pc = "hs_got"
           => total_records' = total_records + Len(lr_result.records)]_vars

\* harvestRecent has counted the two records of its first set, none of
\* which is in the store.
C36_Witness ==
    /\ pc = "recent_sleep" /\ i = 1
    /\ Len(lr_result.records) = 2 /\ total_records = 2
    /\ \A k \in DOMAIN lr_result.records : RowsOf(lr_result.records[k]) = {}

C38_HandleLifecycle ==
    /\ connected_ => conn_ # "null"
    /\ pc = "main"
           => \A res \in PQconnectdbResults \ {"open"} :
                  ~DatabaseConnect(Handle, res).connected
    /\ DatabaseDisconnect(Handle).conn = "null"
    /\ ~DatabaseDisconnect(Handle).connected
    /\ DatabaseDisconnect(DatabaseDisconnect(Handle)) = DatabaseDisconnect(Handle)
    /\ db_opened = (IF pc = "main" THEN 0 ELSE 1)
    /\ pc \notin {"main", "exited"}
           => conn_ = "open" /\ connected_ /\ db_closed = 0
    /\ pc = "exited" => conn_ = "null" /\ ~connected_ /\ db_closed <= 1
    /\ (pc = "exited" /\ calls # <<>>) => db_closed = 1

\* a run has ended with exit code 0 after a listRecords call: db.disconnect()
\* and the destructor have both run, and PQfinish was called once.
C38_Witness ==
    /\ pc = "exited" /\ exit_code = 0 /\ calls # <<>>
    /\ conn_ = "null" /\ ~connected_
    /\ db_opened = 1 /\ db_closed = 1

\* the last value of a sequence of values, "" when there is none
LastOrEmpty(vals) == IF vals = <<>> THEN "" ELSE vals[Len(vals)]

\* C39: the description and the type of a parsed record are the content of
\* the last description and the last type element of its Dublin Core
\* element, in sibling order, and the empty string when it has none.
C39_SingleValuedLast ==
    Parsed
        => LET src == ReadRecords(xml_response)
               out == lr_result.records
           IN  /\ Len(out) = Len(src)
               /\ \A k \in DOMAIN src :
                      /\ out[k].metadata_description
                             = LastOrEmpty(TagValues(DcKidsOf(src[k]), "description"))
                      /\ out[k].metadata_type
                             = LastOrEmpty(TagValues(DcKidsOf(src[k]), "type"))

\* a record was returned whose Dublin Core element held two descriptions,
\* "A" before "B", and no type: its description is "B", its type is empty.
C39_Witness ==
    /\ Parsed /\ Len(lr_result.records) = 1
    /\ TagValues(DcKidsOf(RootRecords(xml_response)[1]), "description") = << "A", "B" >>
    /\ lr_result.records[1].metadata_description = "B"
    /\ lr_result.records[1].metadata_type = ""
====
